---- MODULE Spec2Model ----
(***************************************************************************)
(* node-simple-ipc: RPC (act/add) between a master and a child process     *)
(* over one bidirectional message channel.                                 *)
(*                                                                         *)
(* src/src/node-simple-ipc.ts holds two versions of class NodeSimpleIpc:   *)
(*   "service": lines 25-340, with startService/stopService;               *)
(*   "current": lines 366-650, the version the test-suite exercises.       *)
(* The variable `variant' says which of the two a behaviour runs.          *)
(***************************************************************************)
EXTENDS Integers, Sequences, FiniteSets, TLC

VARIABLES
  variant,            \* which version of the class both endpoints run
  serviceStarted,     \* [end -> BOOLEAN]  this.serviceStarted (service variant)
  procListeners,      \* [end -> Seq]  listeners of ipcProcess 'message', in order;
                      \*   0 is this.messageHandler, l > 0 the messageListener of add call l
  registeredRpcNames, \* [end -> SUBSET Names]  this.registeredRpcNames
  addLog,             \* [end -> Seq]  the add calls made so far (closure l = index)
  prevUniqueId,       \* [end -> Nat]  module variable prevUniqueId of each process
  calls,              \* [end -> Seq]  the act calls made so far (closure k = index)
  rpcEm,              \* [end -> Seq]  listeners of this.rpcEm / this.ipcEm
  chan,               \* [end -> Seq]  messages in flight towards that end (FIFO)
  reqLog,             \* [end -> Seq]  Requests received, with what was done for each
  running,            \* [end -> SUBSET]  handler invocations whose promise is unresolved
  sendDefined,        \* [end -> BOOLEAN]  whether ipcProcess.send is defined
  thrown,             \* [end -> Seq]  errors that left a call or a listener uncaught
  idLog,              \* [end -> Seq]  the calls of uniqueId() in that process: clock reading and id
  subLog,             \* [end -> Seq]  the on/once calls made so far (closure s = index)
  eventsEm,           \* [end -> Seq]  listeners of this.eventsEm, as indices of subLog
  noteLog,            \* [end -> Seq]  Notifications received, with the subscribers invoked
  emitLog             \* [end -> Seq]  the emit calls that returned: what was handed to
                      \*   send, what send returned and what emit returned

vars == <<variant, serviceStarted, procListeners, registeredRpcNames, addLog,
          prevUniqueId, calls, rpcEm, chan, reqLog, running,
          sendDefined, thrown, idLog, subLog, eventsEm, noteLog, emitLog>>

(* The state of the event channel. *)
eventVars == <<subLog, eventsEm, noteLog, emitLog>>

----------------------------------------------------------------------------
(* Bounds of the model *)

MaxActs == 2
MaxServiceActs == 1
MaxAdds == 2
MaxClock == 1
MaxData == 1

Ends == {"master", "child"}
Peer(e) == IF e = "master" THEN "child" ELSE "master"
Names == {"echo", "math"}
Data == 0..MaxData
Clock == 1..MaxClock

MaxIds == 3         \* direct uniqueId() calls of a process
MaxIdClock == 3     \* Date.now() readings of the id generator's own behaviours
MaxSubs == 2        \* on/once calls
MaxEmits == 2       \* emit calls
MaxMisuse == 2      \* calls with invalid arguments
MaxForeign == 2     \* values on the channel that no endpoint sent

IdClock == 1..MaxIdClock

(* Handler functions passed to add: a synchronous one and one that returns a
   promise resolved later. *)
IpcHandlers == {"echo", "incrLater"}
HandlerResult(h, d) == IF h = "echo" THEN d ELSE d + 1

(* Handler functions that fail: one throws an Error, one throws the value it
   was passed, one returns a promise that rejects later. *)
FailingHandlers == {"throwError", "throwValue", "rejectLater"}
HandlerIsAsync(h) == h \in {"incrLater", "rejectLater"}
HandlerFails(h) == h \in FailingHandlers

----------------------------------------------------------------------------
(* JavaScript values. An object is a record of its properties; a function is
   [function |-> f]; a primitive is [primitive |-> <kind>, value |-> v]. A
   string that is built from pieces is the sequence of its pieces. *)

JsString(s) == [primitive |-> "string", value |-> s]
JsNumber(n) == [primitive |-> "number", value |-> n]
JsUndefined == [primitive |-> "undefined"]
JsNull == [primitive |-> "null"]
JsFunction(f) == [function |-> f]

typeof(v) ==
  IF "function" \in DOMAIN v THEN "function"
  ELSE IF "primitive" \in DOMAIN v
       THEN IF v.primitive = "null" THEN "object" ELSE v.primitive
       ELSE "object"

(* new Error(message): name, message and stack are its own strings. *)
NewError(message) ==
  [instanceofError |-> TRUE, name |-> <<"Error">>, message |-> message,
   stack |-> <<"Error: ">> \o message \o <<" at handlerFn">>]

instanceofError(v) == "instanceofError" \in DOMAIN v

(* What a failing handler throws, or rejects its promise with, for data d. *)
HandlerThrown(h, d) ==
  CASE h = "throwError" -> NewError(<<"Something bad happened.">>)
    [] h = "throwValue" -> JsNumber(d)
    [] h = "rejectLater" -> NewError(<<"Rejected later.">>)

----------------------------------------------------------------------------
(* Wire protocol *)

IpcDataTypeInput == "I"
IpcDataTypeOutput == "O"
IpcDataTypeEvent == "E"

(* Mutant: the name check without its length test. *)
assertValidIpcNameAnyString(name) == typeof(name) = "string"

(* assertValidIpcName: TRUE where it returns true, FALSE where it throws. *)
assertValidIpcName(name) ==
  /\ typeof(name) = "string"
  /\ name.value # ""

(* assertValidIpcHandler: TRUE where it returns true, FALSE where it throws. *)
assertValidIpcHandler(handlerFn) == typeof(handlerFn) = "function"

(* The type guards apply the `in' operator to every value whose typeof is
   'object': on null that raises a TypeError instead of returning. *)
TypeGuardThrows(data) == typeof(data) = "object" /\ data = JsNull

isIpcInput(m) ==
  /\ typeof(m) = "object"
  /\ "correlationId" \in DOMAIN m
  /\ "name" \in DOMAIN m
  /\ "type" \in DOMAIN m
  /\ m.type = IpcDataTypeInput

isIpcOutput(m) ==
  /\ typeof(m) = "object"
  /\ "correlationId" \in DOMAIN m
  /\ "name" \in DOMAIN m
  /\ "type" \in DOMAIN m
  /\ m.type = IpcDataTypeOutput

isIpcEvent(m) ==
  /\ typeof(m) = "object"
  /\ "name" \in DOMAIN m
  /\ "type" \in DOMAIN m
  /\ m.type = IpcDataTypeEvent

SendUndefinedError == [name |-> "Error", message |-> <<"The send() method is not defined.">>]

InvalidNameError == [name |-> "Error", message |-> <<"IPC name must be a not empty string.">>]

InvalidHandlerError == [name |-> "Error", message |-> <<"IPC handler must be a function.">>]

AlreadyExistsError(name) ==
  [name |-> "Error", message |-> <<"The RPC named \"", name, "\" already exists.">>]

InOperatorTypeError ==
  [name |-> "TypeError", message |-> <<"Cannot use 'in' operator to search for '", "correlationId", "' in null">>]

(* Template strings are kept as the sequence of their pieces. *)
NotFoundMessage(v, name) ==
  IF v = "current" THEN <<"RPC \"", name, "\" not found.">>
                   ELSE <<"RPC \"", name, "\" not found">>

TimeoutMessage(name) == <<"Reply timeout. IPC name: ", name, ".">>

RemoteError(message, remoteError) ==
  [name |-> "RemoteError", message |-> message, remoteError |-> remoteError]

TimeoutError(message) == [name |-> "TimeoutError", message |-> message]

(* sendInput: the Request put on the channel. *)
sendInput(correlationId, name, data) ==
  [correlationId |-> correlationId, name |-> name, data |-> data,
   type |-> IpcDataTypeInput]

(* sendOutput with partialOutput = {data}. *)
sendOutputData(input, data) ==
  [data |-> data, correlationId |-> input.correlationId, name |-> input.name,
   type |-> IpcDataTypeOutput]

(* sendOutput with partialOutput = {data: undefined, error}: an undefined
   property is the same as an absent one for every reader of the message. *)
sendOutputError(input, error) ==
  [error |-> error, correlationId |-> input.correlationId, name |-> input.name,
   type |-> IpcDataTypeOutput]

(* emit: the Notification put on the channel. *)
ipcEvent(event, data) == [type |-> IpcDataTypeEvent, name |-> event, data |-> data]

----------------------------------------------------------------------------
(* Id generator *)

(* Mutant: uniqueId that trusts the clock whenever it has not gone back. *)
uniqueIdOfClock(prev, now) ==
  IF now < prev THEN <<prev + 1, prev + 1>> ELSE <<now, now>>

(* uniqueId(): the pair <<returned id, new prevUniqueId>>. *)
uniqueId(prev, now) ==
  IF now <= prev THEN <<prev + 1, prev + 1>> ELSE <<now, now>>

Digit(n) == CASE n = 0 -> "0" [] n = 1 -> "1" [] n = 2 -> "2" [] n = 3 -> "3"
              [] n = 4 -> "4" [] n = 5 -> "5" [] n = 6 -> "6" [] n = 7 -> "7"
              [] n = 8 -> "8" [] n = 9 -> "9"

RECURSIVE NumberToString(_)
NumberToString(n) ==
  IF n < 10 THEN <<Digit(n)>> ELSE Append(NumberToString(n \div 10), Digit(n % 10))

(* String(x) of a primitive x. *)
String(x) ==
  CASE x.primitive = "string" -> <<x.value>>
    [] x.primitive = "number" -> NumberToString(x.value)
    [] x.primitive = "undefined" -> <<"undefined">>
    [] x.primitive = "null" -> <<"null">>

serializeError(err) ==
  IF instanceofError(err)
  THEN [name |-> err.name, stack |-> err.stack, message |-> err.message]
  ELSE [message |-> String(err)]

(* The correlationId of an act call: uniqueId().toString() in the service
   variant, uniqueId() itself in the current one. *)
CorrelationId(v, id) == IF v = "service" THEN NumberToString(id) ELSE id

----------------------------------------------------------------------------
(* EventEmitter *)

RECURSIVE LastIndex(_, _, _)
LastIndex(s, x, i) ==
  IF i = 0 THEN 0 ELSE IF s[i] = x THEN i ELSE LastIndex(s, x, i - 1)

(* emitter.off(listener): removes the most recently added instance, if any. *)
RemoveListener(s, x) ==
  LET i == LastIndex(s, x, Len(s))
  IN IF i = 0 THEN s ELSE SubSeq(s, 1, i - 1) \o SubSeq(s, i + 1, Len(s))

(* Mutant: the reply listener registered with on() instead of once(). *)
RegisterReplyOn(em, correlationId, k) ==
  Append(em, [event |-> correlationId, call |-> k, once |-> FALSE])

(* rpcEm.once(correlationId, listenReply) of act call k. *)
RegisterReply(em, correlationId, k) ==
  Append(em, [event |-> correlationId, call |-> k, once |-> TRUE])

(* Mutant: the timeout callback leaves the reply listener registered. *)
RemoveReplyNone(em, correlationId, k) == em

(* rpcEm.off(correlationId, listenReply) of act call k. *)
RemoveReply(em, correlationId, k) ==
  LET Mine(i) == em[i].event = correlationId /\ em[i].call = k
      hits == {i \in DOMAIN em : Mine(i)}
      last == CHOOSE i \in hits : \A j \in hits : j <= i
  IN IF hits = {} THEN em
     ELSE SubSeq(em, 1, last - 1) \o SubSeq(em, last + 1, Len(em))

(* Mutant: emit invokes every reply listener, whatever its event. *)
ReplyTargetsAll(em, correlationId) == {em[i].call : i \in DOMAIN em}

(* The act calls whose listenReply rpcEm.emit(correlationId, ..) invokes. *)
ReplyTargets(em, correlationId) ==
  {em[i].call : i \in {j \in DOMAIN em : em[j].event = correlationId}}

(* rpcEm after emit(correlationId, ..): once-listeners of the event are gone. *)
AfterEmit(em, correlationId) ==
  LET Keep(l) == l.event # correlationId \/ ~l.once IN SelectSeq(em, Keep)

----------------------------------------------------------------------------
(* Promise of an act call *)

resolve(c, v) ==
  [c EXCEPT !.settles = @ + 1,
            !.promise = IF @.state = "pending"
                        THEN [state |-> "fulfilled", value |-> v] ELSE @]

reject(c, err) ==
  [c EXCEPT !.settles = @ + 1,
            !.promise = IF @.state = "pending"
                        THEN [state |-> "rejected", reason |-> err] ELSE @]

(* listenReply(ipcOutput) of the act call c. *)
listenReply(c, out) ==
  LET cleared == [c EXCEPT !.timer = FALSE]
  IN IF "error" \in DOMAIN out
     THEN reject(cleared, RemoteError(out.error.message, out.error))
     ELSE resolve(cleared, out.data)

(* Mutant: a timeout callback that clears up but does not reject. *)
onTimeoutSilent(c) == [c EXCEPT !.timer = FALSE]

(* The timeout callback of the act call c. *)
onTimeout(c) ==
  reject([c EXCEPT !.timer = FALSE], TimeoutError(TimeoutMessage(c.name)))

----------------------------------------------------------------------------
(* Initial states *)

InitCommon ==
  /\ registeredRpcNames = [e \in Ends |-> {}]
  /\ addLog = [e \in Ends |-> <<>>]
  /\ prevUniqueId = [e \in Ends |-> 0]
  /\ calls = [e \in Ends |-> <<>>]
  /\ rpcEm = [e \in Ends |-> <<>>]
  /\ chan = [e \in Ends |-> <<>>]
  /\ reqLog = [e \in Ends |-> <<>>]
  /\ running = [e \in Ends |-> {}]
  /\ thrown = [e \in Ends |-> <<>>]
  /\ idLog = [e \in Ends |-> <<>>]
  /\ subLog = [e \in Ends |-> <<>>]
  /\ eventsEm = [e \in Ends |-> <<>>]
  /\ noteLog = [e \in Ends |-> <<>>]
  /\ emitLog = [e \in Ends |-> <<>>]

(* The current variant: the constructor attaches messageHandler. Both ends
   of the channel can send. *)
Init ==
  /\ variant = "current"
  /\ serviceStarted = [e \in Ends |-> TRUE]
  /\ procListeners = [e \in Ends |-> <<0>>]
  /\ sendDefined = [e \in Ends |-> TRUE]
  /\ InitCommon

(* The service variant: the constructor calls startService() iff
   options.startService, which is true by default. *)
InitService ==
  /\ variant = "service"
  /\ serviceStarted \in [Ends -> BOOLEAN]
  /\ procListeners = [e \in Ends |-> IF serviceStarted[e] THEN <<0>> ELSE <<>>]
  /\ sendDefined = [e \in Ends |-> TRUE]
  /\ InitCommon

(* The service variant constructed with its default options: the service of
   both endpoints is started. *)
InitStarted ==
  /\ variant = "service"
  /\ serviceStarted = [e \in Ends |-> TRUE]
  /\ procListeners = [e \in Ends |-> <<0>>]
  /\ sendDefined = [e \in Ends |-> TRUE]
  /\ InitCommon

(* The current variant on IpcProcess objects whose optional send may be
   missing (a process that was not spawned with an IPC channel). *)
InitSend ==
  /\ variant = "current"
  /\ serviceStarted = [e \in Ends |-> TRUE]
  /\ procListeners = [e \in Ends |-> <<0>>]
  /\ sendDefined \in [Ends -> BOOLEAN]
  /\ InitCommon

----------------------------------------------------------------------------
(* Operations *)

TotalCalls == Len(calls["master"]) + Len(calls["child"])
TotalAdds == Len(addLog["master"]) + Len(addLog["child"])
TotalSubs == Len(subLog["master"]) + Len(subLog["child"])

(* The service variant has more states (startService/stopService), so its
   behaviours get fewer act calls. *)
ActLimit == IF variant = "service" THEN MaxServiceActs ELSE MaxActs

(* What `thrown' holds: an error that a call of the API threw at its call
   site, one that a listener of 'message' threw, and the rejection of a
   promise that nothing handles. *)
ThrownByCall(err) == [site |-> "call", error |-> err]
ThrownByListener(err) == [site |-> "listener", error |-> err]
UnhandledRejection(err) == [site |-> "promise", error |-> err]

(* A call on endpoint e throws err at the call site and does nothing else. *)
Throws(e, err) ==
  /\ Len(thrown[e]) < MaxMisuse
  /\ thrown' = [thrown EXCEPT ![e] = Append(@, ThrownByCall(err))]
  /\ UNCHANGED <<variant, serviceStarted, procListeners, registeredRpcNames,
                 addLog, prevUniqueId, calls, rpcEm, chan, reqLog, running,
                 sendDefined, idLog, eventVars>>

(* act(name, data) on endpoint e, with Date.now() reading `now'. *)
Act(e, name, data, now) ==
  IF ~assertValidIpcName(name)
  THEN Throws(e, InvalidNameError)
  ELSE
  /\ TotalCalls < ActLimit
  /\ LET id == uniqueId(prevUniqueId[e], now)
         correlationId == CorrelationId(variant, id[1])
         k == Len(calls[e]) + 1
         c == [correlationId |-> correlationId, name |-> name.value,
               data |-> data, timer |-> TRUE, settles |-> 0,
               promise |-> [state |-> "pending"]]
     IN /\ prevUniqueId' = [prevUniqueId EXCEPT ![e] = id[2]]
        /\ idLog' = [idLog EXCEPT ![e] = Append(@, [now |-> now, id |-> id[1]])]
        /\ calls' = [calls EXCEPT ![e] = Append(@,
                       IF sendDefined[e] THEN c ELSE reject(c, SendUndefinedError))]
        /\ rpcEm' = [rpcEm EXCEPT ![e] = RegisterReply(@, correlationId, k)]
        /\ chan' = [chan EXCEPT ![Peer(e)] =
                       IF sendDefined[e]
                       THEN Append(@, sendInput(correlationId, name.value, data))
                       ELSE @]
  /\ UNCHANGED <<variant, serviceStarted, procListeners, registeredRpcNames,
                 addLog, reqLog, running, sendDefined, thrown, eventVars>>

(* The timer of act call k of endpoint e fires. *)
TimerFire(e, k) ==
  /\ k \in DOMAIN calls[e]
  /\ calls[e][k].timer
  /\ rpcEm' = [rpcEm EXCEPT ![e] = RemoveReply(@, calls[e][k].correlationId, k)]
  /\ calls' = [calls EXCEPT ![e][k] = onTimeout(@)]
  /\ UNCHANGED <<variant, serviceStarted, procListeners, registeredRpcNames,
                 addLog, prevUniqueId, chan, reqLog, running,
                 sendDefined, thrown, idLog, eventVars>>

(* Mutant: add without its duplicate check. *)
AlreadyExistsNever(names, name) == FALSE

(* The duplicate check of add. *)
AlreadyExists(names, name) == name \in names

(* add(name, handlerFn) on endpoint e. *)
Add(e, name, handlerFn) ==
  IF ~assertValidIpcName(name) THEN Throws(e, InvalidNameError)
  ELSE IF ~assertValidIpcHandler(handlerFn) THEN Throws(e, InvalidHandlerError)
  ELSE
  /\ TotalAdds < MaxAdds
  /\ LET l == Len(addLog[e]) + 1
         exists == AlreadyExists(registeredRpcNames[e], name.value)
     IN /\ addLog' = [addLog EXCEPT ![e] = Append(@,
                        [name |-> name.value, handlerFn |-> handlerFn.function,
                         ok |-> ~exists, removed |-> FALSE])]
        /\ IF exists
           THEN /\ thrown' = [thrown EXCEPT ![e] =
                                Append(@, ThrownByCall(AlreadyExistsError(name.value)))]
                /\ UNCHANGED <<registeredRpcNames, procListeners>>
           ELSE /\ registeredRpcNames' = [registeredRpcNames EXCEPT ![e] =
                                            @ \cup {name.value}]
                /\ procListeners' = [procListeners EXCEPT ![e] = Append(@, l)]
                /\ UNCHANGED thrown
  /\ UNCHANGED <<variant, serviceStarted, prevUniqueId, calls, rpcEm,
                 chan, reqLog, running, sendDefined, idLog, eventVars>>

(* The registry after the removal function returned by add(name, ..) ran:
   only the current variant deletes the name. *)
Unregister(v, names, name) == IF v = "current" THEN names \ {name} ELSE names

(* The removal function returned by add call l of endpoint e; the log keeps
   that it was called. *)
Remove(e, l) ==
  /\ l \in DOMAIN addLog[e]
  /\ addLog[e][l].ok
  /\ procListeners' = [procListeners EXCEPT ![e] = RemoveListener(@, l)]
  /\ registeredRpcNames' = [registeredRpcNames EXCEPT ![e] =
                              Unregister(variant, @, addLog[e][l].name)]
  /\ addLog' = [addLog EXCEPT ![e][l].removed = TRUE]
  /\ UNCHANGED <<variant, serviceStarted, prevUniqueId, calls, rpcEm,
                 chan, reqLog, running, sendDefined, thrown, idLog, eventVars>>

(* Mutant: a registration that takes effect only once a later add call was
   made. *)
DispatchedOfEarlier(e, ls, name) ==
  LET Match(l) == l > 0 /\ addLog[e][l].name = name /\ l < Len(addLog[e])
  IN SelectSeq(ls, Match)

(* The messageListeners among the listeners ls of endpoint e that pass a
   Request named `name' to their handler, in listener order. *)
DispatchedOf(e, ls, name) ==
  LET Match(l) == l > 0 /\ addLog[e][l].name = name
  IN SelectSeq(ls, Match)

(* The messageListeners of endpoint e that pass a Request named `name' to
   their handler, in listener order. *)
Dispatched(e, name) == DispatchedOf(e, procListeners[e], name)

(* Whether this.messageHandler is attached to the channel of endpoint e. *)
Listening(e) == LastIndex(procListeners[e], 0, Len(procListeners[e])) > 0

(* Mutant: the not-found test of onIpcMessage without its negation. *)
AnswersNotFoundInverted(e, m) ==
  /\ Listening(e)
  /\ m.name \in registeredRpcNames[e]

(* onIpcMessage answers a Request itself iff the name is not registered. *)
AnswersNotFound(e, m) ==
  /\ Listening(e)
  /\ m.name \notin registeredRpcNames[e]

(* Mutant: a .catch that answers as .then does. *)
HandlerOutputData(input, h) ==
  <<sendOutputData(input, HandlerResult("incrLater", input.data))>>

(* The Response that the .then / .catch of a messageListener sends once the
   promise of handler h is settled. *)
HandlerOutput(input, h) ==
  IF HandlerFails(h)
  THEN <<sendOutputError(input, serializeError(HandlerThrown(h, input.data)))>>
  ELSE <<sendOutputData(input, HandlerResult(h, input.data))>>

RECURSIVE Flatten(_)
Flatten(ss) == IF ss = <<>> THEN <<>> ELSE Head(ss) \o Flatten(Tail(ss))

(* Endpoint e receives the Request m: the not-found reply is sent at once,
   the replies of synchronous handlers by the promise jobs that follow, and
   asynchronous handlers stay running. Without send, sendOutput throws: in
   onIpcMessage that ends the emit of 'message' (the listeners after it do
   not run), in a promise job it leaves an unhandled rejection. *)
OnRequest(e, m) ==
  LET notFound == AnswersNotFound(e, m)
      aborted == notFound /\ ~sendDefined[e]
      at0 == LastIndex(procListeners[e], 0, Len(procListeners[e]))
      ran == IF aborted THEN SubSeq(procListeners[e], 1, at0 - 1)
                        ELSE procListeners[e]
      lids == DispatchedOf(e, ran, m.name)
      IsSync(l) == ~HandlerIsAsync(addLog[e][l].handlerFn)
      IsAsync(l) == HandlerIsAsync(addLog[e][l].handlerFn)
      syncLids == SelectSeq(lids, IsSync)
      asyncLids == SelectSeq(lids, IsAsync)
      replies ==
        (IF notFound
         THEN <<sendOutputError(m, [message |-> NotFoundMessage(variant, m.name)])>>
         ELSE <<>>)
        \o Flatten([i \in 1..Len(syncLids) |->
                      HandlerOutput(m, addLog[e][syncLids[i]].handlerFn)])
      outputs == IF sendDefined[e] THEN replies ELSE <<>>
      failures ==
        IF sendDefined[e] THEN <<>>
        ELSE (IF aborted THEN <<ThrownByListener(SendUndefinedError)>> ELSE <<>>)
             \o [i \in 1..Len(syncLids) |-> UnhandledRejection(SendUndefinedError)]
      r == Len(reqLog[e]) + 1
  IN /\ chan' = [chan EXCEPT ![e] = Tail(@), ![Peer(e)] = @ \o outputs]
     /\ reqLog' = [reqLog EXCEPT ![e] = Append(@,
                     [correlationId |-> m.correlationId, name |-> m.name,
                      data |-> m.data,
                      registered |-> m.name \in registeredRpcNames[e],
                      notFound |-> notFound, invoked |-> lids,
                      sent |-> Len(outputs)])]
     /\ running' = [running EXCEPT ![e] =
                      @ \cup {[req |-> r, lid |-> asyncLids[i]] : i \in DOMAIN asyncLids}]
     /\ thrown' = [thrown EXCEPT ![e] = @ \o failures]
     /\ UNCHANGED <<calls, rpcEm, eventVars>>

(* Endpoint e receives the Response m: rpcEm.emit(m.correlationId, m). *)
OnResponse(e, m) ==
  LET targets == IF Listening(e)
                 THEN ReplyTargets(rpcEm[e], m.correlationId) ELSE {}
  IN /\ chan' = [chan EXCEPT ![e] = Tail(@)]
     /\ calls' = [calls EXCEPT ![e] =
                    [k \in DOMAIN @ |-> IF k \in targets THEN listenReply(@[k], m)
                                                       ELSE @[k]]]
     /\ rpcEm' = [rpcEm EXCEPT ![e] =
                    IF Listening(e)
                    THEN AfterEmit(@, m.correlationId) ELSE @]
     /\ UNCHANGED <<reqLog, running, thrown, eventVars>>

(* Mutant: emit of eventsEm invokes the listeners of every event name. *)
EventTargetsAll(em, log, event) == em

(* The listeners eventsEm.emit(event, ..) invokes, in the order they were
   added. *)
EventTargets(em, log, event) ==
  LET Match(s) == log[s].event = event IN SelectSeq(em, Match)

(* eventsEm after emit(event, ..): the once-listeners of the event are gone. *)
EventsAfterEmit(em, log, event) ==
  LET Keep(s) == log[s].event # event \/ ~log[s].once IN SelectSeq(em, Keep)

(* The key under which an EventEmitter files a listener: the event name as
   a string. *)
EmitterKey(v, x) == IF v = "service" THEN x ELSE NumberToString(x)

(* Mutant: one emitter for replies and events, so that a Notification also
   runs the reply listeners filed under its name. *)
OnEventSharedEmitter(e, m) ==
  LET targets == IF Listening(e)
                 THEN EventTargets(eventsEm[e], subLog[e], m.name) ELSE <<>>
      replies == {k \in ReplyTargetsAll(rpcEm[e], 0) :
                    EmitterKey(variant, calls[e][k].correlationId) = <<m.name>>}
  IN /\ chan' = [chan EXCEPT ![e] = Tail(@)]
     /\ noteLog' = [noteLog EXCEPT ![e] = Append(@,
                      [name |-> m.name, data |-> m.data, invoked |-> targets])]
     /\ eventsEm' = [eventsEm EXCEPT ![e] =
                       IF Listening(e)
                       THEN EventsAfterEmit(@, subLog[e], m.name) ELSE @]
     /\ calls' = [calls EXCEPT ![e] =
                    [k \in DOMAIN @ |->
                       IF k \in replies
                       THEN resolve([@[k] EXCEPT !.timer = FALSE], JsUndefined)
                       ELSE @[k]]]
     /\ UNCHANGED <<rpcEm, reqLog, running, thrown, subLog, emitLog>>

(* Endpoint e receives the Notification m: eventsEm.emit(m.name, m.data). *)
OnEvent(e, m) ==
  LET targets == IF Listening(e)
                 THEN EventTargets(eventsEm[e], subLog[e], m.name) ELSE <<>>
      data == IF "data" \in DOMAIN m THEN m.data ELSE JsUndefined
  IN /\ chan' = [chan EXCEPT ![e] = Tail(@)]
     /\ noteLog' = [noteLog EXCEPT ![e] = Append(@,
                      [name |-> m.name, data |-> data, invoked |-> targets])]
     /\ eventsEm' = [eventsEm EXCEPT ![e] =
                       IF Listening(e)
                       THEN EventsAfterEmit(@, subLog[e], m.name) ELSE @]
     /\ UNCHANGED <<calls, rpcEm, reqLog, running, thrown, subLog, emitLog>>

(* The channel delivers its oldest message to endpoint e: every listener of
   'message' runs on it, each starting with a type guard. *)
Deliver(e) ==
  /\ chan[e] # <<>>
  /\ LET m == Head(chan[e])
     IN IF procListeners[e] # <<>> /\ TypeGuardThrows(m)
        THEN /\ chan' = [chan EXCEPT ![e] = Tail(@)]
             /\ thrown' = [thrown EXCEPT ![e] =
                              Append(@, ThrownByListener(InOperatorTypeError))]
             /\ UNCHANGED <<calls, rpcEm, reqLog, running, eventVars>>
        ELSE IF isIpcInput(m) THEN OnRequest(e, m)
        ELSE IF isIpcOutput(m) THEN OnResponse(e, m)
        ELSE IF isIpcEvent(m) THEN OnEvent(e, m)
        ELSE /\ chan' = [chan EXCEPT ![e] = Tail(@)]
             /\ UNCHANGED <<calls, rpcEm, reqLog, running, thrown, eventVars>>
  /\ UNCHANGED <<variant, serviceStarted, procListeners, registeredRpcNames,
                 addLog, prevUniqueId, sendDefined, idLog>>

(* The promise of a running handler invocation is settled: .then or .catch
   sends the Response. *)
HandlerDone(e, inv) ==
  /\ inv \in running[e]
  /\ LET r == reqLog[e][inv.req]
         outputs == HandlerOutput(r, addLog[e][inv.lid].handlerFn)
     IN IF sendDefined[e]
        THEN /\ chan' = [chan EXCEPT ![Peer(e)] = @ \o outputs]
             /\ reqLog' = [reqLog EXCEPT ![e][inv.req].sent = @ + Len(outputs)]
             /\ UNCHANGED thrown
        ELSE /\ thrown' = [thrown EXCEPT ![e] =
                             Append(@, UnhandledRejection(SendUndefinedError))]
             /\ UNCHANGED <<chan, reqLog>>
  /\ running' = [running EXCEPT ![e] = @ \ {inv}]
  /\ UNCHANGED <<variant, serviceStarted, procListeners, registeredRpcNames,
                 addLog, prevUniqueId, calls, rpcEm, sendDefined, idLog,
                 eventVars>>

(* Mutant: startService without its test of serviceStarted. *)
AlreadyStartedNever(started) == FALSE

(* The test startService begins with: `if (this.serviceStarted) return this'. *)
AlreadyStarted(started) == started

(* startService() of the service variant. *)
StartService(e) ==
  /\ variant = "service"
  /\ IF AlreadyStarted(serviceStarted[e])
     THEN UNCHANGED <<serviceStarted, procListeners>>
     ELSE /\ serviceStarted' = [serviceStarted EXCEPT ![e] = TRUE]
          /\ procListeners' = [procListeners EXCEPT ![e] = Append(@, 0)]
  /\ UNCHANGED <<variant, registeredRpcNames, addLog, prevUniqueId,
                 calls, rpcEm, chan, reqLog, running,
                 sendDefined, thrown, idLog, eventVars>>

(* stopService() of the service variant. *)
StopService(e) ==
  /\ variant = "service"
  /\ serviceStarted' = [serviceStarted EXCEPT ![e] = FALSE]
  /\ procListeners' = [procListeners EXCEPT ![e] = RemoveListener(@, 0)]
  /\ UNCHANGED <<variant, registeredRpcNames, addLog, prevUniqueId,
                 calls, rpcEm, chan, reqLog, running,
                 sendDefined, thrown, idLog, eventVars>>

----------------------------------------------------------------------------
(* Synchronous channel: FakeIpc, whose send runs the 'message' listeners of
   the other process before it returns. *)

(* Mutant: act that sends the Request first and registers listenReply and
   starts the timer afterwards. *)
RegistersAfterSending == FALSE

(* act registers listenReply and starts the timer, then calls sendInput. *)
RegistersBeforeSending == TRUE

(* The pair <<act call, rpcEm>> of call k after its endpoint received the
   Response out. *)
Replied(pair, out, k) ==
  IF k \in ReplyTargets(pair[2], out.correlationId)
  THEN <<listenReply(pair[1], out), AfterEmit(pair[2], out.correlationId)>>
  ELSE pair

(* act(name, data) on endpoint e over FakeIpc: sendInput runs the listeners
   of the peer, whose onIpcMessage answers not-found within that call, and
   that answer runs onIpcMessage of e, all before sendInput returns; the
   handlers the messageListeners invoke answer from a promise job. *)
ActSync(e, name, data, now) ==
  IF ~assertValidIpcName(name)
  THEN Throws(e, InvalidNameError)
  ELSE
  /\ TotalCalls < ActLimit
  /\ chan[e] = <<>> /\ chan[Peer(e)] = <<>>
  /\ LET id == uniqueId(prevUniqueId[e], now)
         correlationId == CorrelationId(variant, id[1])
         k == Len(calls[e]) + 1
         p == Peer(e)
         m == sendInput(correlationId, name.value, data)
         notFound == AnswersNotFound(p, m)
         lids == Dispatched(p, name.value)
         r == Len(reqLog[p]) + 1
         started == [correlationId |-> correlationId, name |-> name.value,
                     data |-> data, timer |-> TRUE, settles |-> 0,
                     promise |-> [state |-> "pending"]]
         atSend == IF RegistersBeforeSending
                   THEN <<started, RegisterReply(rpcEm[e], correlationId, k)>>
                   ELSE <<started, rpcEm[e]>>
         reply == sendOutputError(m, [message |-> NotFoundMessage(variant, name.value)])
         sent == IF notFound THEN Replied(atSend, reply, k) ELSE atSend
         done == IF RegistersBeforeSending THEN sent
                 ELSE <<sent[1], RegisterReply(sent[2], correlationId, k)>>
     IN /\ prevUniqueId' = [prevUniqueId EXCEPT ![e] = id[2]]
        /\ idLog' = [idLog EXCEPT ![e] = Append(@, [now |-> now, id |-> id[1]])]
        /\ calls' = [calls EXCEPT ![e] = Append(@, done[1])]
        /\ rpcEm' = [rpcEm EXCEPT ![e] = done[2]]
        /\ reqLog' = [reqLog EXCEPT ![p] = Append(@,
                        [correlationId |-> correlationId, name |-> name.value,
                         data |-> data,
                         registered |-> name.value \in registeredRpcNames[p],
                         notFound |-> notFound, invoked |-> lids,
                         sent |-> IF notFound THEN 1 ELSE 0])]
        /\ running' = [running EXCEPT ![p] =
                         @ \cup {[req |-> r, lid |-> lids[i]] : i \in DOMAIN lids}]
  /\ UNCHANGED <<variant, serviceStarted, procListeners, registeredRpcNames,
                 addLog, chan, sendDefined, thrown, eventVars>>

(* The promise of a handler invocation of endpoint e is settled over FakeIpc:
   sendOutput runs onIpcMessage of the peer before it returns. *)
HandlerDoneSync(e, inv) ==
  /\ inv \in running[e]
  /\ LET r == reqLog[e][inv.req]
         out == HandlerOutput(r, addLog[e][inv.lid].handlerFn)[1]
         p == Peer(e)
         targets == ReplyTargets(rpcEm[p], out.correlationId)
     IN /\ calls' = [calls EXCEPT ![p] =
                       [k \in DOMAIN @ |->
                          IF k \in targets THEN listenReply(@[k], out) ELSE @[k]]]
        /\ rpcEm' = [rpcEm EXCEPT ![p] = AfterEmit(@, out.correlationId)]
        /\ reqLog' = [reqLog EXCEPT ![e][inv.req].sent = @ + 1]
  /\ running' = [running EXCEPT ![e] = @ \ {inv}]
  /\ UNCHANGED <<variant, serviceStarted, procListeners, registeredRpcNames,
                 addLog, prevUniqueId, chan, sendDefined, thrown, idLog,
                 eventVars>>

(* A timer fires only once the promise jobs are done: no invocation of a
   synchronous handler is waiting to answer. *)
JobsDone ==
  \A e \in Ends : \A inv \in running[e] :
    HandlerIsAsync(addLog[e][inv.lid].handlerFn)

----------------------------------------------------------------------------
(* Event channel *)

EventNames == {"echo", "tick"}
EventHandlers == {"h1", "h2"}

(* eventsEm.off(event, handler): removes the most recently added listener of
   the event whose function is `handler', if any. *)
EventsOff(em, log, event, handler) ==
  LET hits == {i \in DOMAIN em : log[em[i]].event = event /\ log[em[i]].handler = handler}
      last == CHOOSE i \in hits : \A j \in hits : j <= i
  IN IF hits = {} THEN em
     ELSE SubSeq(em, 1, last - 1) \o SubSeq(em, last + 1, Len(em))

(* eventsEm.on / eventsEm.once; the call returns removal function s. Of
   subscription s the log keeps how many Notifications the endpoint had
   received when it was made (at) and when its removal function was first
   called (removedAt, -1 before that). *)
Subscribe(e, event, handler, once) ==
  /\ TotalSubs < MaxSubs
  /\ LET s == Len(subLog[e]) + 1
     IN /\ subLog' = [subLog EXCEPT ![e] = Append(@,
                        [event |-> event, handler |-> handler, once |-> once,
                         at |-> Len(noteLog[e]), removedAt |-> -1])]
        /\ eventsEm' = [eventsEm EXCEPT ![e] = Append(@, s)]
  /\ UNCHANGED <<variant, serviceStarted, procListeners, registeredRpcNames,
                 addLog, prevUniqueId, calls, rpcEm, chan, reqLog, running,
                 sendDefined, thrown, idLog, noteLog, emitLog>>

(* on(event, handler) on endpoint e. *)
On(e, event, handler) == Subscribe(e, event, handler, FALSE)

(* once(event, handler) on endpoint e. *)
Once(e, event, handler) == Subscribe(e, event, handler, TRUE)

(* off(event, handler) on endpoint e. *)
Off(e, event, handler) ==
  /\ eventsEm' = [eventsEm EXCEPT ![e] = EventsOff(@, subLog[e], event, handler)]
  /\ UNCHANGED <<variant, serviceStarted, procListeners, registeredRpcNames,
                 addLog, prevUniqueId, calls, rpcEm, chan, reqLog, running,
                 sendDefined, thrown, idLog, subLog, noteLog, emitLog>>

(* The removal function returned by on/once call s of endpoint e. *)
Unsubscribe(e, s) ==
  /\ s \in DOMAIN subLog[e]
  /\ eventsEm' = [eventsEm EXCEPT ![e] =
                    EventsOff(@, subLog[e], subLog[e][s].event, subLog[e][s].handler)]
  /\ subLog' = [subLog EXCEPT ![e][s].removedAt =
                                  IF @ < 0 THEN Len(noteLog[e]) ELSE @]
  /\ UNCHANGED <<variant, serviceStarted, procListeners, registeredRpcNames,
                 addLog, prevUniqueId, calls, rpcEm, chan, reqLog, running,
                 sendDefined, thrown, idLog, noteLog, emitLog>>

(* The emit calls that returned. *)
TotalEmits == Len(emitLog["master"]) + Len(emitLog["child"])

(* What emit returns: `return this.ipcProcess.send(ipcEvent)'. *)
emitReturns(sendResult) == sendResult

(* emit(event, data) on endpoint e, while the channel's send returns
   `sendResult': false is a channel that does not take the message. *)
Emit(e, event, data, sendResult) ==
  IF ~sendDefined[e]
  THEN Throws(e, SendUndefinedError)
  ELSE /\ TotalEmits < MaxEmits
       /\ chan' = [chan EXCEPT ![Peer(e)] =
                      IF sendResult THEN Append(@, ipcEvent(event, data)) ELSE @]
       /\ emitLog' = [emitLog EXCEPT ![e] = Append(@,
                        [sent |-> ipcEvent(event, data), sendResult |-> sendResult,
                         returned |-> emitReturns(sendResult)])]
       /\ UNCHANGED <<variant, serviceStarted, procListeners, registeredRpcNames,
                      addLog, prevUniqueId, calls, rpcEm, reqLog, running,
                      sendDefined, thrown, idLog, subLog, eventsEm, noteLog>>

----------------------------------------------------------------------------
(* Environment *)

(* Values that are not messages of the protocol: non-objects, null, objects
   without or with an unknown discriminator, objects with a discriminator of
   the protocol that lack a required field. *)
ForeignValues ==
  { JsUndefined, JsNumber(1), JsNull,
    [hello |-> "world"],
    [name |-> "echo", type |-> "event"],
    [type |-> IpcDataTypeInput, name |-> "echo", data |-> 0],
    [type |-> IpcDataTypeOutput, correlationId |-> 1, data |-> 0],
    [type |-> IpcDataTypeEvent, data |-> 0] }

(* Some other user of the channel sends the value v towards endpoint e. *)
Foreign(e, v) ==
  /\ Len(chan[e]) + Len(thrown[e]) < MaxForeign
  /\ chan' = [chan EXCEPT ![e] = Append(@, v)]
  /\ UNCHANGED <<variant, serviceStarted, procListeners, registeredRpcNames,
                 addLog, prevUniqueId, calls, rpcEm, reqLog, running,
                 sendDefined, thrown, idLog, eventVars>>

(* The channel loses its oldest message towards endpoint e (send returned
   false, or the peer went away): act and sendOutput ignore what send
   returns. *)
Lose(e) ==
  /\ chan[e] # <<>>
  /\ chan' = [chan EXCEPT ![e] = Tail(@)]
  /\ UNCHANGED <<variant, serviceStarted, procListeners, registeredRpcNames,
                 addLog, prevUniqueId, calls, rpcEm, reqLog, running,
                 sendDefined, thrown, idLog, eventVars>>

(* Some code of process e calls uniqueId() while Date.now() reads `now'. *)
UniqueIdCall(e, now) ==
  /\ Len(idLog[e]) < MaxIds
  /\ LET id == uniqueId(prevUniqueId[e], now)
     IN /\ prevUniqueId' = [prevUniqueId EXCEPT ![e] = id[2]]
        /\ idLog' = [idLog EXCEPT ![e] = Append(@, [now |-> now, id |-> id[1]])]
  /\ UNCHANGED <<variant, serviceStarted, procListeners, registeredRpcNames,
                 addLog, calls, rpcEm, chan, reqLog, running,
                 sendDefined, thrown, eventVars>>

----------------------------------------------------------------------------
(* Specifications *)

Next ==
  \/ \E e \in Ends, name \in Names, data \in Data, now \in Clock :
       Act(e, JsString(name), data, now)
  \/ \E e \in Ends, k \in 1..MaxActs + 1 : TimerFire(e, k)
  \/ \E e \in Ends, name \in Names, handlerFn \in IpcHandlers :
       Add(e, JsString(name), JsFunction(handlerFn))
  \/ \E e \in Ends, l \in 1..MaxAdds + 1 : Remove(e, l)
  \/ \E e \in Ends : Deliver(e)
  \/ \E e \in Ends : \E inv \in running[e] : HandlerDone(e, inv)

NextService ==
  \/ Next
  \/ \E e \in Ends : StartService(e)
  \/ \E e \in Ends : StopService(e)

Spec == Init /\ [][Next]_vars

SpecService == InitService /\ [][NextService]_vars

(* The current variant with handlers that fail, all under one name. *)
NextErrors ==
  \/ \E e \in Ends, data \in Data, now \in Clock :
       Act(e, JsString("echo"), data, now)
  \/ \E e \in Ends, k \in 1..MaxActs + 1 : TimerFire(e, k)
  \/ \E e \in Ends, handlerFn \in FailingHandlers \cup {"echo"} :
       Add(e, JsString("echo"), JsFunction(handlerFn))
  \/ \E e \in Ends, l \in 1..MaxAdds + 1 : Remove(e, l)
  \/ \E e \in Ends : Deliver(e)
  \/ \E e \in Ends : \E inv \in running[e] : HandlerDone(e, inv)

SpecErrors == Init /\ [][NextErrors]_vars

(* The event channel of the current variant on its own. *)
NextEvents ==
  \/ \E e \in Ends, event \in EventNames, handler \in EventHandlers :
       On(e, event, handler)
  \/ \E e \in Ends, event \in EventNames, handler \in EventHandlers :
       Once(e, event, handler)
  \/ \E e \in Ends, event \in EventNames, handler \in EventHandlers :
       Off(e, event, handler)
  \/ \E e \in Ends, s \in 1..MaxSubs + 1 : Unsubscribe(e, s)
  \/ \E e \in Ends, event \in EventNames, data \in Data :
       Emit(e, event, data, TRUE)
  \/ \E e \in Ends : Deliver(e)

SpecEvents == Init /\ [][NextEvents]_vars

(* Event names that are also the name of an endpoint and the text of a
   correlationId. *)
SharedNames == {"echo", "1"}

(* The current variant with RPC and events over the one channel, the events
   named like an endpoint and like a correlationId: the master registers the
   endpoint and the subscribers, both ends call, the child emits. *)
NextMixed ==
  \/ \E e \in Ends, now \in Clock : Act(e, JsString("echo"), 0, now)
  \/ Add("master", JsString("echo"), JsFunction("echo"))
  \/ \E event \in SharedNames : On("master", event, "h1")
  \/ \E event \in SharedNames : Emit("child", event, 0, TRUE)
  \/ \E e \in Ends : Deliver(e)

SpecMixed == Init /\ [][NextMixed]_vars

(* Arguments a caller may hand to act and add: valid ones, and a name that
   is empty, not a string or missing, a handler that is not a function. *)
NameArgs == {JsString("echo"), JsString(""), JsNumber(1), JsUndefined}
HandlerArgs == {JsFunction("echo"), JsString("echo"), JsUndefined}

(* The current variant called with valid and invalid arguments. *)
NextMisuse ==
  \/ \E e \in Ends, name \in NameArgs, now \in Clock : Act(e, name, 0, now)
  \/ \E e \in Ends, name \in NameArgs, handlerFn \in HandlerArgs :
       Add(e, name, handlerFn)
  \/ \E e \in Ends : Deliver(e)

SpecMisuse == Init /\ [][NextMisuse]_vars

(* The id generator of a process under a clock that may stand still and go
   back, called directly and by act. *)
NextUniqueId ==
  \/ \E e \in Ends, now \in IdClock : UniqueIdCall(e, now)
  \/ \E e \in Ends, now \in IdClock : Act(e, JsString("echo"), 0, now)

SpecUniqueId == Init /\ [][NextUniqueId]_vars

(* The current variant on a channel that other users share: next to the
   messages of the protocol it carries their values towards the master. *)
NextInbound ==
  \/ \E e \in Ends, now \in Clock : Act(e, JsString("echo"), 0, now)
  \/ Add("master", JsString("echo"), JsFunction("echo"))
  \/ On("master", "echo", "h1")
  \/ \E v \in ForeignValues : Foreign("master", v)
  \/ \E e \in Ends : Deliver(e)

SpecInbound == Init /\ [][NextInbound]_vars

(* The current variant on processes whose send may be missing. *)
NextSend ==
  \/ \E e \in Ends, now \in Clock : Act(e, JsString("echo"), 0, now)
  \/ \E e \in Ends, k \in 1..MaxActs : TimerFire(e, k)
  \/ \E e \in Ends, h \in IpcHandlers : Add(e, JsString("echo"), JsFunction(h))
  \/ \E e \in Ends : Deliver(e)
  \/ \E e \in Ends : \E inv \in running[e] : HandlerDone(e, inv)

SpecSend == InitSend /\ [][NextSend]_vars

(* The current variant on a channel that may lose messages, with peers that
   may never answer and handlers that may never complete: nothing is assumed
   of the steps but that a timer that was started and not cleared fires. *)
NextTimeout ==
  \/ \E e \in Ends, now \in Clock : Act(e, JsString("echo"), 0, now)
  \/ \E e \in Ends, k \in 1..MaxActs : TimerFire(e, k)
  \/ \E e \in Ends, h \in IpcHandlers : Add(e, JsString("echo"), JsFunction(h))
  \/ \E e \in Ends : Deliver(e)
  \/ \E e \in Ends : Lose(e)
  \/ \E e \in Ends : \E inv \in running[e] : HandlerDone(e, inv)

TimersFire == \A e \in Ends : \A k \in 1..MaxActs : WF_vars(TimerFire(e, k))

SpecTimeout == InitSend /\ [][NextTimeout]_vars /\ TimersFire

(* emit of the current variant on processes whose send may be missing, over
   a channel whose send may return false: the master emits, next to its own
   subscriptions, endpoints and calls. *)
NextEmit ==
  \/ \E event \in EventNames, sendResult \in BOOLEAN :
       Emit("master", event, 0, sendResult)
  \/ \E e \in Ends : On(e, "echo", "h1")
  \/ Add("master", JsString("echo"), JsFunction("echo"))
  \/ \E now \in Clock : Act("master", JsString("echo"), 0, now)
  \/ \E e \in Ends : Deliver(e)

SpecEmit == InitSend /\ [][NextEmit]_vars

(* The current variant over FakeIpc, the channel of the test-suite. *)
NextSync ==
  \/ \E e \in Ends, name \in Names, data \in Data, now \in Clock :
       ActSync(e, JsString(name), data, now)
  \/ \E e \in Ends, k \in 1..MaxActs : JobsDone /\ TimerFire(e, k)
  \/ \E e \in Ends, name \in Names, handlerFn \in IpcHandlers :
       Add(e, JsString(name), JsFunction(handlerFn))
  \/ \E e \in Ends : \E inv \in running[e] : HandlerDoneSync(e, inv)

SpecSync == Init /\ [][NextSync]_vars

(* The service variant, started by its constructor: the master registers an
   endpoint and a subscriber, calls, and stops and starts its service; the
   child calls and emits. *)
NextStopped ==
  \/ \E e \in Ends, now \in Clock : Act(e, JsString("echo"), 0, now)
  \/ \E h \in IpcHandlers : Add("master", JsString("echo"), JsFunction(h))
  \/ On("master", "echo", "h1")
  \/ Emit("child", "echo", 0, TRUE)
  \/ StopService("master")
  \/ StartService("master")
  \/ \E e \in Ends : Deliver(e)
  \/ \E e \in Ends : \E inv \in running[e] : HandlerDone(e, inv)

SpecStopped == InitStarted /\ [][NextStopped]_vars

----------------------------------------------------------------------------
(* Vocabulary of the properties *)

Settled(c) == c.promise.state # "pending"

(* A listenReply of act call k is registered in rpcEm of endpoint e. *)
HasReply(e, k) == \E i \in DOMAIN rpcEm[e] : rpcEm[e][i].call = k

(* The step delivers the oldest message of chan[e] to endpoint e. *)
DeliverStep(e) == chan[e] # <<>> /\ chan'[e] = Tail(chan[e])

(* What the Response m makes of a promise it settles. *)
OutcomeOf(m) ==
  IF "error" \in DOMAIN m
  THEN [state |-> "rejected", reason |-> RemoteError(m.error.message, m.error)]
  ELSE [state |-> "fulfilled", value |-> m.data]

TimedOut(c) ==
  /\ c.promise.state = "rejected"
  /\ c.promise.reason.name = "TimeoutError"

Contains(message, name) == \E i \in DOMAIN message : message[i] = name

(* The Request of act call k of endpoint e, as its peer logged it. *)
RequestsOf(e, k) ==
  {r \in DOMAIN reqLog[Peer(e)] :
     reqLog[Peer(e)][r].correlationId = calls[e][k].correlationId}

(* Nothing of endpoint e but its inbound queue changes, and it sends nothing. *)
OnlyConsumes(e) ==
  /\ calls' = calls
  /\ rpcEm' = rpcEm
  /\ reqLog' = reqLog
  /\ running' = running
  /\ registeredRpcNames' = registeredRpcNames
  /\ procListeners' = procListeners
  /\ chan'[Peer(e)] = chan[Peer(e)]

----------------------------------------------------------------------------
(* C1: the promise of every act call is settled at most once. While the call
   is pending, the first Response carrying its correlationId, or its timer
   firing, decides the outcome; once it is settled no step changes the call
   (outcome, number of resolve/reject invocations, timer), it has neither a
   timer nor a reply listener, and a further Response for its correlationId
   changes nothing at the endpoint. *)
C1_Step ==
  \A e \in Ends :
    /\ \A k \in DOMAIN calls'[e] :
         /\ calls'[e][k].settles <= 1
         /\ Settled(calls'[e][k]) =>
              /\ ~calls'[e][k].timer
              /\ \A i \in DOMAIN rpcEm'[e] : rpcEm'[e][i].call # k
    /\ \A k \in DOMAIN calls[e] :
         LET c == calls[e][k]
             isReply == /\ DeliverStep(e)
                        /\ isIpcOutput(Head(chan[e]))
                        /\ Head(chan[e]).correlationId = c.correlationId
         IN /\ Settled(c) => calls'[e][k] = c
            /\ (~Settled(c) /\ isReply) =>
                 calls'[e][k].promise = OutcomeOf(Head(chan[e]))
            /\ (~Settled(c) /\ ~DeliverStep(e) /\ c.timer /\ ~calls'[e][k].timer) =>
                 TimedOut(calls'[e][k])
    /\ ( /\ DeliverStep(e)
         /\ isIpcOutput(Head(chan[e]))
         /\ \A k \in DOMAIN calls[e] :
              calls[e][k].correlationId = Head(chan[e]).correlationId
                => Settled(calls[e][k]) )
       => OnlyConsumes(e)

C1_SettledAtMostOnce == [][C1_Step]_vars

(* C1 witness: a call settled once although its peer sent two Responses for
   its Request, both of which have been delivered. *)
C1_Witness ==
  \E e \in Ends : \E k \in DOMAIN calls[e] :
    /\ Settled(calls[e][k])
    /\ ~TimedOut(calls[e][k])
    /\ calls[e][k].settles = 1
    /\ chan[e] = <<>>
    /\ \E r \in RequestsOf(e, k) : reqLog[Peer(e)][r].sent >= 2

----------------------------------------------------------------------------
(* C2: when the timer of a pending act call fires, the call is rejected with
   a TimeoutError whose message names the endpoint and its reply listener is
   removed; a Response for that correlationId delivered afterwards leaves the
   call and the whole endpoint as they were and sends nothing. *)
C2_Step ==
  \A e \in Ends : \A k \in DOMAIN calls[e] :
    LET c == calls[e][k]
    IN /\ (~Settled(c) /\ ~DeliverStep(e) /\ c.timer /\ ~calls'[e][k].timer) =>
            /\ calls'[e][k].promise =
                 [state |-> "rejected",
                  reason |-> TimeoutError(TimeoutMessage(c.name))]
            /\ Contains(calls'[e][k].promise.reason.message, c.name)
            /\ calls'[e][k].settles = 1
            /\ \A i \in DOMAIN rpcEm'[e] : rpcEm'[e][i].call # k
       /\ ( /\ TimedOut(c)
            /\ DeliverStep(e)
            /\ isIpcOutput(Head(chan[e]))
            /\ Head(chan[e]).correlationId = c.correlationId
            /\ \A j \in DOMAIN calls[e] :
                 calls[e][j].correlationId = c.correlationId => Settled(calls[e][j]) )
          => OnlyConsumes(e)
       /\ TimedOut(c) => calls'[e][k] = c

C2_TimeoutThenLateReply == [][C2_Step]_vars

(* C2 witness: a call rejected by its timer, whose Request the peer answered
   all the same, the late Response having been delivered. *)
C2_Witness ==
  \E e \in Ends : \E k \in DOMAIN calls[e] :
    /\ TimedOut(calls[e][k])
    /\ calls[e][k].settles = 1
    /\ chan[e] = <<>>
    /\ \E r \in RequestsOf(e, k) : reqLog[Peer(e)][r].sent >= 1

----------------------------------------------------------------------------
Range(s) == {s[i] : i \in DOMAIN s}

HandlerOf(e, l) == addLog[e][l].handlerFn

(* C3: concurrently outstanding act calls are independent. A Response
   changes no call whose correlationId differs from its own, a call is
   settled only by its timer or by a Response carrying its correlationId,
   the correlationIds of an endpoint's calls are pairwise distinct, and a
   fulfilled call holds a result a handler registered under its name
   computed from the call's own data. *)
C3_Step ==
  \A e \in Ends : \A k \in DOMAIN calls[e] :
    LET c == calls[e][k]
        mine == /\ isIpcOutput(Head(chan[e]))
                /\ Head(chan[e]).correlationId = c.correlationId
    IN /\ (DeliverStep(e) /\ ~mine) =>
            /\ calls'[e][k] = c
            /\ HasReply(e, k) => \E i \in DOMAIN rpcEm'[e] : rpcEm'[e][i].call = k
       /\ (~Settled(c) /\ Settled(calls'[e][k])) =>
            \/ DeliverStep(e) /\ mine
            \/ TimedOut(calls'[e][k])

C3_State ==
  \A e \in Ends :
    /\ \A j, k \in DOMAIN calls[e] :
         calls[e][j].correlationId = calls[e][k].correlationId => j = k
    /\ \A k \in DOMAIN calls[e] :
         LET c == calls[e][k]
         IN /\ c.promise.state = "fulfilled" =>
                 \E r \in RequestsOf(e, k) :
                   LET q == reqLog[Peer(e)][r]
                   IN /\ q.name = c.name
                      /\ q.data = c.data
                      /\ \E l \in Range(q.invoked) :
                           c.promise.value = HandlerResult(HandlerOf(Peer(e), l), c.data)
            /\ (Settled(c) /\ ~TimedOut(c)) => RequestsOf(e, k) # {}

C3_CallsIndependent == []C3_State /\ [][C3_Step]_vars

(* C3 witness: two calls of one endpoint with different data are outstanding
   at the peer, and the second is fulfilled with its own result while the
   first is still pending. *)
C3_Witness ==
  \E e \in Ends :
    /\ Len(calls[e]) >= 2
    /\ calls[e][1].data # calls[e][2].data
    /\ ~Settled(calls[e][1])
    /\ RequestsOf(e, 1) # {}
    /\ calls[e][2].promise.state = "fulfilled"
    /\ \E r \in RequestsOf(e, 2) :
         \E l \in Range(reqLog[Peer(e)][r].invoked) :
           calls[e][2].promise.value =
             HandlerResult(HandlerOf(Peer(e), l), calls[e][2].data)

----------------------------------------------------------------------------
(* C4: if a handler is registered under the name of an act call on the peer
   (it is passed the Request) and returns v for the call's data, the call,
   unless its timer fired first, is fulfilled with exactly v. *)
C4_RoundTrip ==
  \A e \in Ends : \A k \in DOMAIN calls[e] :
    LET c == calls[e][k]
    IN (Settled(c) /\ ~TimedOut(c)) =>
         \A r \in RequestsOf(e, k) :
           \A l \in Range(reqLog[Peer(e)][r].invoked) :
             c.promise = [state |-> "fulfilled",
                          value |-> HandlerResult(HandlerOf(Peer(e), l), c.data)]

----------------------------------------------------------------------------
(* C5: an endpoint sends exactly one Response for every Request it received:
   never two, and one as soon as no handler invocation for it is running. *)
C5_ExactlyOneResponse ==
  \A e \in Ends : \A r \in DOMAIN reqLog[e] :
    /\ reqLog[e][r].sent <= 1
    /\ (\A inv \in running[e] : inv.req # r) => reqLog[e][r].sent = 1

----------------------------------------------------------------------------
(* The first message in flight to e that carries the correlationId is the
   not-found Response for `name'. *)
NotFoundInFlight(e, correlationId, name) ==
  \E i \in DOMAIN chan[e] :
    /\ isIpcOutput(chan[e][i])
    /\ chan[e][i].correlationId = correlationId
    /\ "error" \in DOMAIN chan[e][i]
    /\ chan[e][i].error.message = <<"RPC \"", name, "\" not found.">>
    /\ \A j \in 1..(i - 1) :
         ~(isIpcOutput(chan[e][j]) /\ chan[e][j].correlationId = correlationId)

(* C6: a Request for a name that is not registered on the peer is answered
   on receipt with the error message 'RPC "<name>" not found.'; the act call
   is rejected by that reply (which is in flight while the call is pending)
   with a RemoteError whose message contains the name, unless its timer fired
   before the reply arrived. *)
C6_NotFound ==
  \A e \in Ends : \A k \in DOMAIN calls[e] :
    LET c == calls[e][k]
    IN \A r \in RequestsOf(e, k) :
         ~reqLog[Peer(e)][r].registered =>
           /\ reqLog[Peer(e)][r].notFound
           /\ reqLog[Peer(e)][r].sent >= 1
           /\ ~Settled(c) => NotFoundInFlight(e, c.correlationId, c.name)
           /\ (Settled(c) /\ ~TimedOut(c)) =>
                /\ c.promise.state = "rejected"
                /\ c.promise.reason.name = "RemoteError"
                /\ c.promise.reason.message = <<"RPC \"", c.name, "\" not found.">>
                /\ Contains(c.promise.reason.message, c.name)
                /\ c.promise.reason.remoteError =
                     [message |-> <<"RPC \"", c.name, "\" not found.">>]

(* C6 witness: a call rejected with the not-found RemoteError. *)
C6_Witness ==
  \E e \in Ends : \E k \in DOMAIN calls[e] :
    /\ calls[e][k].promise.state = "rejected"
    /\ calls[e][k].promise.reason.name = "RemoteError"
    /\ Contains(calls[e][k].promise.reason.message, calls[e][k].name)
    /\ \E r \in RequestsOf(e, k) : ~reqLog[Peer(e)][r].registered

----------------------------------------------------------------------------
(* The step is an add call on endpoint e. *)
AddStep(e) == Len(addLog'[e]) = Len(addLog[e]) + 1

(* C7: add(n, h2) on a registry where n is registered throws and changes
   nothing: the registry and the attached listeners stay as they were, so the
   same handlers as before are passed the Requests named n, and h2 is never
   attached nor invoked. *)
C7_Step ==
  \A e \in Ends :
    AddStep(e) =>
      LET a == addLog'[e][Len(addLog'[e])]
      IN /\ a.name \in registeredRpcNames[e] => ~a.ok
         /\ ~a.ok =>
              /\ a.name \in registeredRpcNames[e]
              /\ registeredRpcNames' = registeredRpcNames
              /\ procListeners' = procListeners
              /\ \A name \in Names : Dispatched(e, name)' = Dispatched(e, name)
              /\ UNCHANGED <<calls, rpcEm, chan, reqLog, running, prevUniqueId>>

C7_State ==
  \A e \in Ends : \A l \in DOMAIN addLog[e] :
    ~addLog[e][l].ok =>
      /\ l \notin Range(procListeners[e])
      /\ \A r \in DOMAIN reqLog[e] : l \notin Range(reqLog[e][r].invoked)
      /\ \A inv \in running[e] : inv.lid # l

C7_DuplicateAddThrows == []C7_State /\ [][C7_Step]_vars

(* C7 witness: an add call was refused for a name, and a Request of that
   name has been passed to the handler registered first. *)
C7_Witness ==
  \E e \in Ends : \E l \in DOMAIN addLog[e] :
    /\ ~addLog[e][l].ok
    /\ \E r \in DOMAIN reqLog[e] :
         /\ reqLog[e][r].name = addLog[e][l].name
         /\ reqLog[e][r].invoked # <<>>
         /\ \A l0 \in Range(reqLog[e][r].invoked) : l0 < l

----------------------------------------------------------------------------
(* Some add(name, ..) succeeded on e and the removal function of every such
   call has been called: no messageListener for the name is attached. *)
AllRemoved(e, name) ==
  /\ \E l \in DOMAIN addLog[e] : addLog[e][l].ok /\ addLog[e][l].name = name
  /\ Dispatched(e, name) = <<>>

(* C8: after the removal function returned by add(n, h) has been called,
   (a) an inbound Request named n is answered with the not-found Response and
   no handler is invoked, and (b) a new add(n, h') succeeds and attaches h'. *)
C8_Step ==
  \A e \in Ends :
    /\ ( /\ DeliverStep(e)
         /\ isIpcInput(Head(chan[e]))
         /\ Listening(e)
         /\ AllRemoved(e, Head(chan[e]).name) )
       => /\ chan'[Peer(e)] = Append(chan[Peer(e)],
               sendOutputError(Head(chan[e]),
                 [message |-> NotFoundMessage(variant, Head(chan[e]).name)]))
          /\ running' = running
    /\ AddStep(e) =>
         LET l == Len(addLog'[e])
             a == addLog'[e][l]
         IN AllRemoved(e, a.name) =>
              /\ a.ok
              /\ procListeners'[e] = Append(procListeners[e], l)

C8_RemovalUnregisters == [][C8_Step]_vars

----------------------------------------------------------------------------
(* C9: calling a removal function a second or later time has no effect on
   the registry, also when the name was registered again in between. *)
C9_Step ==
  \A e \in Ends : \A l \in DOMAIN addLog[e] :
    ( /\ Remove(e, l)
      /\ l \notin Range(procListeners[e]) )
    => /\ registeredRpcNames' = registeredRpcNames
       /\ procListeners' = procListeners

C9_StaleRemovalNoEffect == [][C9_Step]_vars

----------------------------------------------------------------------------
(* C10: at most one handler is attached for each endpoint name, and a name
   is recorded as registered iff exactly one handler for it is attached. *)
C10_RegistryConsistent ==
  \A e \in Ends : \A name \in Names :
    /\ Len(Dispatched(e, name)) <= 1
    /\ name \in registeredRpcNames[e] <=> Len(Dispatched(e, name)) = 1

----------------------------------------------------------------------------
(* The Response with this error is the first message in flight to e that
   carries the correlationId. *)
ErrorInFlight(e, correlationId, error) ==
  \E i \in DOMAIN chan[e] :
    /\ isIpcOutput(chan[e][i])
    /\ chan[e][i].correlationId = correlationId
    /\ "error" \in DOMAIN chan[e][i]
    /\ chan[e][i].error = error
    /\ \A j \in 1..(i - 1) :
         ~(isIpcOutput(chan[e][j]) /\ chan[e][j].correlationId = correlationId)

(* Handler l of endpoint e is still running for Request r. *)
Running(e, r, l) == [req |-> r, lid |-> l] \in running[e]

(* C11: if the handler that a Request is passed to throws or returns a
   promise that rejects, the serving endpoint raises nothing: it sends one
   Response, whose error is the serialized thrown value and which settles the
   call (unless the timer fired first) as rejected with a RemoteError made of
   the serialized message and the SerializedError; and the endpoint goes on
   answering: every Request it receives later is answered once as well. *)
C11_HandlerErrorReported ==
  \A e \in Ends :
    /\ \A i \in DOMAIN thrown[e] : thrown[e][i].site = "call"
    /\ \A k \in DOMAIN calls[e] : \A r \in RequestsOf(e, k) :
         \A l \in Range(reqLog[Peer(e)][r].invoked) :
           LET c == calls[e][k]
               h == HandlerOf(Peer(e), l)
               error == serializeError(HandlerThrown(h, c.data))
           IN (HandlerFails(h) /\ ~Running(Peer(e), r, l)) =>
                /\ reqLog[Peer(e)][r].sent = 1
                /\ ~Settled(c) => ErrorInFlight(e, c.correlationId, error)
                /\ (Settled(c) /\ ~TimedOut(c)) =>
                     c.promise = [state |-> "rejected",
                                  reason |-> RemoteError(error.message, error)]
    /\ \A r \in DOMAIN reqLog[e] :
         (\E q \in 1..(r - 1) : \E l \in Range(reqLog[e][q].invoked) :
            HandlerFails(HandlerOf(e, l)))
         => /\ reqLog[e][r].sent <= 1
            /\ (\A inv \in running[e] : inv.req # r) => reqLog[e][r].sent = 1

----------------------------------------------------------------------------
(* C12: the SerializedError of a thrown Error has exactly the fields name,
   stack and message, taken from it, and that of any other thrown value x is
   exactly {message: String(x)}; so a call whose Request was passed to a
   handler that threw x is rejected (unless its timer fired first) with a
   RemoteError that carries this SerializedError and whose message is the
   Error's message, respectively String(x). *)
C12_SerializedError ==
  \A e \in Ends : \A k \in DOMAIN calls[e] : \A r \in RequestsOf(e, k) :
    \A l \in Range(reqLog[Peer(e)][r].invoked) :
      LET c == calls[e][k]
          h == HandlerOf(Peer(e), l)
          x == HandlerThrown(h, c.data)
      IN (HandlerFails(h) /\ Settled(c) /\ ~TimedOut(c)) =>
           /\ c.promise.state = "rejected"
           /\ c.promise.reason.name = "RemoteError"
           /\ IF instanceofError(x)
              THEN /\ DOMAIN c.promise.reason.remoteError = {"name", "stack", "message"}
                   /\ c.promise.reason.remoteError.name = x.name
                   /\ c.promise.reason.remoteError.stack = x.stack
                   /\ c.promise.reason.remoteError.message = x.message
                   /\ c.promise.reason.message = x.message
              ELSE /\ c.promise.reason.remoteError = [message |-> String(x)]
                   /\ c.promise.reason.message = String(x)

----------------------------------------------------------------------------
(* The Notifications that invoked subscription s of endpoint e. *)
Invocations(e, s) ==
  {n \in DOMAIN noteLog[e] : s \in Range(noteLog[e][n].invoked)}

(* The Notifications named event that endpoint e received after its first
   `from' ones and among its first `to' ones. *)
Notes(e, event, from, to) ==
  {n \in DOMAIN noteLog[e] : n > from /\ n <= to /\ noteLog[e][n].name = event}

(* The step delivers a Notification to endpoint e, whose inbound-message
   handler is attached. *)
NoteStep(e) ==
  /\ DeliverStep(e)
  /\ isIpcEvent(Head(chan[e]))
  /\ Listening(e)

(* C13: a subscription made with once(event, h) is invoked by no
   Notification but the first one named event that is received after it was
   made, and by that one if it is still registered then; it is never invoked
   if its removal function was called before such a Notification arrived. *)
C13_State ==
  \A e \in Ends : \A s \in DOMAIN subLog[e] :
    LET sub == subLog[e][s]
        later == Notes(e, sub.event, sub.at, Len(noteLog[e]))
    IN sub.once =>
         /\ Cardinality(Invocations(e, s)) <= 1
         /\ \A n \in Invocations(e, s) : n \in later /\ \A m \in later : n <= m
         /\ ( /\ sub.removedAt >= 0
              /\ Notes(e, sub.event, sub.at, sub.removedAt) = {} )
            => Invocations(e, s) = {}

C13_Step ==
  \A e \in Ends :
    NoteStep(e) =>
      \A s \in Range(eventsEm[e]) :
        (subLog[e][s].once /\ subLog[e][s].event = Head(chan[e]).name) =>
          /\ s \in Range(noteLog'[e][Len(noteLog'[e])].invoked)
          /\ s \notin Range(eventsEm'[e])

C13_OnceFiresOnce == []C13_State /\ [][C13_Step]_vars

----------------------------------------------------------------------------
(* The listeners em without those of handler h for the event. *)
OtherListeners(em, log, event, h) ==
  LET Other(s) == ~(log[s].event = event /\ log[s].handler = h)
  IN SelectSeq(em, Other)

(* The listeners em without subscription s. *)
ListenersBut(em, s) == LET Other(x) == x # s IN SelectSeq(em, Other)

(* What emit can tell of the listeners em: of each, in order, the event, the
   function and whether it is removed when it runs. *)
Shape(em, log) ==
  [i \in DOMAIN em |-> <<log[em[i]].event, log[em[i]].handler, log[em[i]].once>>]

(* C14: off(event, h) leaves the listeners of every other handler and of
   every other event name registered as they were, and if h is registered
   once for the event, no listener of h for it remains; the removal function
   returned by on(event, h), called while its subscription is registered,
   takes that subscription away and leaves what every other subscription
   receives as it was. *)
C14_Step ==
  \A e \in Ends :
    /\ \A event \in EventNames, h \in EventHandlers :
         Off(e, event, h) =>
           /\ OtherListeners(eventsEm'[e], subLog[e], event, h)
                = OtherListeners(eventsEm[e], subLog[e], event, h)
           /\ Len(eventsEm[e]) - Len(OtherListeners(eventsEm[e], subLog[e], event, h)) = 1
                => OtherListeners(eventsEm'[e], subLog[e], event, h) = eventsEm'[e]
    /\ \A s \in DOMAIN subLog[e] :
         (Unsubscribe(e, s) /\ ~subLog[e][s].once /\ s \in Range(eventsEm[e])) =>
           Shape(eventsEm'[e], subLog[e]) = Shape(ListenersBut(eventsEm[e], s), subLog[e])

C14_OffStopsDelivery == [][C14_Step]_vars

----------------------------------------------------------------------------
(* The Notifications on their way through endpoint e, oldest first: those it
   has received and those in flight to it, each as <<name, data>>. *)
Pipeline(e) ==
  LET inFlight == SelectSeq(chan[e], isIpcEvent)
  IN [n \in DOMAIN noteLog[e] |-> <<noteLog[e][n].name, noteLog[e][n].data>>]
       \o [i \in DOMAIN inFlight |-> <<inFlight[i].name, inFlight[i].data>>]

(* C15: the step that receives a Notification invokes, in that step, every
   subscription registered for its name, each once and in the order in which
   they were registered, with the data of that Notification, and no other
   step invokes a subscriber; the Notifications an endpoint receives are
   those its peer emitted, in the order of the emit calls, each with its own
   name and data. *)
C15_Step ==
  \A e \in Ends :
    /\ IF NoteStep(e)
       THEN LET m == Head(chan[e])
                n == noteLog'[e][Len(noteLog'[e])]
                IsFor(s) == subLog[e][s].event = m.name
            IN /\ Len(noteLog'[e]) = Len(noteLog[e]) + 1
               /\ n.name = m.name
               /\ n.data = m.data
               /\ Range(n.invoked) = {s \in Range(eventsEm[e]) : IsFor(s)}
               /\ \A i, j \in DOMAIN n.invoked : i < j => n.invoked[i] < n.invoked[j]
       ELSE \A n \in DOMAIN noteLog'[e] :
              n \in DOMAIN noteLog[e] \/ noteLog'[e][n].invoked = <<>>
    /\ \A n \in DOMAIN noteLog[e] :
         n \in DOMAIN noteLog'[e] /\ noteLog'[e][n] = noteLog[e][n]
    /\ \/ Pipeline(e)' = Pipeline(e)
       \/ \E event \in EventNames, data \in Data :
            /\ Emit(Peer(e), event, data, TRUE)
            /\ Pipeline(e)' = Append(Pipeline(e), <<event, data>>)

C15_State ==
  \A e \in Ends : \A s \in DOMAIN subLog[e] : \A n \in Invocations(e, s) :
    /\ noteLog[e][n].name = subLog[e][s].event
    /\ n > subLog[e][s].at

----------------------------------------------------------------------------
(* C16: receiving a Notification leaves the RPC engine of the endpoint as it
   was (no handler runs, nothing is sent, no call is settled, no reply
   listener is removed), and receiving a Request or a Response leaves the
   event channel as it was (no subscriber is invoked, no subscription is
   removed), whatever their names and correlationIds. *)
C16_Step ==
  \A e \in Ends :
    /\ (DeliverStep(e) /\ isIpcEvent(Head(chan[e]))) =>
         /\ OnlyConsumes(e)
         /\ thrown' = thrown
    /\ (DeliverStep(e) /\ (isIpcInput(Head(chan[e])) \/ isIpcOutput(Head(chan[e])))) =>
         /\ noteLog' = noteLog
         /\ eventsEm' = eventsEm
         /\ subLog' = subLog

C16_EventsAndRpcIsolated == [][C16_Step]_vars

(* C16 witness: an endpoint with a subscriber of "echo" and of "1" has
   received a Notification named like its registered endpoint "echo" and one
   named like the correlationId of its pending call, both delivered to the
   subscriber, and a Request named like the subscribed event "echo". *)
C16_Witness ==
  \E e \in Ends :
    /\ "echo" \in registeredRpcNames[e]
    /\ \E n \in DOMAIN noteLog[e] :
         noteLog[e][n].name = "echo" /\ noteLog[e][n].invoked # <<>>
    /\ \E k \in DOMAIN calls[e] : \E n \in DOMAIN noteLog[e] :
         /\ ~Settled(calls[e][k])
         /\ EmitterKey(variant, calls[e][k].correlationId) = <<noteLog[e][n].name>>
         /\ noteLog[e][n].invoked # <<>>
    /\ \E r \in DOMAIN reqLog[e] : reqLog[e][r].name = "echo"

----------------------------------------------------------------------------
(* C17: a call of act or add with invalid arguments throws at the call site
   and does nothing else: no act call, Request, reply listener, registered
   name or 'message' listener ever carries an empty name, and the step that
   throws the invalid-name or invalid-handler error changes nothing but the
   thrown errors. *)
C17_State ==
  \A e \in Ends :
    /\ \A k \in DOMAIN calls[e] : calls[e][k].name # ""
    /\ \A i \in DOMAIN chan[e] : chan[e][i].name # ""
    /\ \A l \in DOMAIN addLog[e] : addLog[e][l].name # ""
    /\ "" \notin registeredRpcNames[e]
    /\ \A i \in DOMAIN thrown[e] :
         thrown[e][i].error \in {InvalidNameError, InvalidHandlerError}
           => thrown[e][i].site = "call"

C17_Step ==
  \A e \in Ends :
    (/\ Len(thrown'[e]) = Len(thrown[e]) + 1
     /\ thrown'[e][Len(thrown'[e])].error
          \in {InvalidNameError, InvalidHandlerError})
      => UNCHANGED <<variant, serviceStarted, procListeners,
                     registeredRpcNames, addLog, prevUniqueId, calls, rpcEm,
                     chan, reqLog, running, sendDefined, idLog, eventVars>>

C17_MisuseThrows == []C17_State /\ [][C17_Step]_vars

(* C17 witness: an endpoint has thrown both misuse errors, and a valid act
   and a valid add have been made as well. *)
C17_Witness ==
  \E e \in Ends :
    /\ \E i \in DOMAIN thrown[e] : thrown[e][i] = ThrownByCall(InvalidNameError)
    /\ \E i \in DOMAIN thrown[e] : thrown[e][i] = ThrownByCall(InvalidHandlerError)
    /\ calls[e] # <<>>
    /\ addLog[e] # <<>>

----------------------------------------------------------------------------
(* C18: in every process each id that uniqueId returns is greater than every
   id it returned before, whatever the clock read, prevUniqueId is the last
   id returned, and the correlationIds of the act calls of a process are
   pairwise distinct. *)
C18_UniqueIdIncreases ==
  \A e \in Ends :
    /\ \A i, j \in DOMAIN idLog[e] : i < j => idLog[e][i].id < idLog[e][j].id
    /\ idLog[e] # <<>> => prevUniqueId[e] = idLog[e][Len(idLog[e])].id
    /\ \A k, l \in DOMAIN calls[e] :
         k # l => calls[e][k].correlationId # calls[e][l].correlationId

(* C18 witness: in one process the clock read the same value twice in a row
   and then went back, and two act calls of that process drew ids. *)
C18_Witness ==
  \E e \in Ends :
    /\ \E i \in DOMAIN idLog[e] :
         /\ i + 2 \in DOMAIN idLog[e]
         /\ idLog[e][i + 1].now = idLog[e][i].now
         /\ idLog[e][i + 2].now < idLog[e][i + 1].now
    /\ Len(calls[e]) = 2

----------------------------------------------------------------------------
(* A Request, Response or Notification of the protocol: an object with a
   known discriminator and the fields its type requires. *)
WellFormed(m) ==
  /\ typeof(m) = "object"
  /\ m # JsNull
  /\ "type" \in DOMAIN m
  /\ \/ m.type \in {IpcDataTypeInput, IpcDataTypeOutput}
          /\ {"correlationId", "name"} \subseteq DOMAIN m
     \/ m.type = IpcDataTypeEvent /\ "name" \in DOMAIN m

(* C19: the step that receives a value that is not a well-formed message of
   the protocol raises no error, sends nothing, invokes no handler and no
   subscriber, settles no call and changes nothing of the endpoint. *)
C19_Step ==
  \A e \in Ends :
    (DeliverStep(e) /\ ~WellFormed(Head(chan[e]))) =>
      /\ OnlyConsumes(e)
      /\ thrown' = thrown
      /\ UNCHANGED <<addLog, prevUniqueId, idLog, eventVars>>

C19_MalformedIgnored == [][C19_Step]_vars

----------------------------------------------------------------------------
(* C20: in every state an act call has a reply listener exactly if it is not
   yet settled, and a running timer exactly if it is not yet settled,
   whichever way it was settled. *)
C20_PendingIffUnsettled ==
  \A e \in Ends : \A k \in DOMAIN calls[e] :
    /\ HasReply(e, k) <=> ~Settled(calls[e][k])
    /\ calls[e][k].timer <=> ~Settled(calls[e][k])

----------------------------------------------------------------------------
(* C21: every act call is eventually settled, given only that its timer
   fires: no call stays pending forever, whether or not the Request arrives,
   the peer answers or the handler completes; and a pending call that is
   settled by anything but a received Response ends with TimeoutError. *)
C21_Step ==
  \A e \in Ends : \A k \in DOMAIN calls[e] :
    (~Settled(calls[e][k]) /\ Settled(calls'[e][k]) /\ ~DeliverStep(e))
      => TimedOut(calls'[e][k])

C21_EventuallySettled ==
  /\ \A e \in Ends : \A k \in 1..MaxActs :
       (k \in DOMAIN calls[e]) ~> (k \in DOMAIN calls[e] /\ Settled(calls[e][k]))
  /\ [][C21_Step]_vars

(* C21 witness: of two calls of an endpoint that ended with TimeoutError,
   the Request of one was lost (the peer never received it) and the handler
   of the other's Request is still running. *)
C21_Witness ==
  \E e \in Ends : \E k, l \in DOMAIN calls[e] :
    /\ TimedOut(calls[e][k])
    /\ TimedOut(calls[e][l])
    /\ RequestsOf(e, k) = {}
    /\ chan[Peer(e)] = <<>>
    /\ \E inv \in running[Peer(e)] :
         reqLog[Peer(e)][inv.req].correlationId = calls[e][l].correlationId

----------------------------------------------------------------------------
(* C22: a Response that cannot be sent is given up silently: no error leaves
   a listener of 'message' and no promise of a handler invocation is left
   rejected without a handler, in any state. *)
C22_SendFailureSwallowed ==
  \A e \in Ends : \A i \in DOMAIN thrown[e] :
    thrown[e][i].site \notin {"listener", "promise"}

----------------------------------------------------------------------------
(* The step is an emit call of endpoint e that returned. *)
EmitStep(e) == Len(emitLog'[e]) = Len(emitLog[e]) + 1

(* C23: every emit call hands exactly one Notification with its name and
   data to the channel's send and returns what send returned, never throws,
   and changes nothing of its own endpoint: no act call, reply listener,
   registered name, 'message' listener or subscription appears or goes, and
   no local subscriber is invoked. *)
C23_Step ==
  \A e \in Ends :
    EmitStep(e) =>
      LET c == emitLog'[e][Len(emitLog'[e])]
      IN /\ isIpcEvent(c.sent)
         /\ c.returned = c.sendResult
         /\ chan'[Peer(e)] = IF c.sendResult THEN Append(chan[Peer(e)], c.sent)
                                             ELSE chan[Peer(e)]
         /\ chan'[e] = chan[e]
         /\ UNCHANGED <<calls, rpcEm, registeredRpcNames, procListeners, addLog,
                        reqLog, running, subLog, eventsEm, noteLog, thrown>>

C23_State ==
  \A e \in Ends : \A i \in DOMAIN thrown[e] :
    thrown[e][i] # ThrownByCall(SendUndefinedError)

C23_EmitSendsOne == []C23_State /\ [][C23_Step]_vars

----------------------------------------------------------------------------
(* The handler invocations of Request r of endpoint e that are suspended. *)
Suspended(e, r) == {inv \in running[e] : inv.req = r}

(* C24: a Request is dispatched in the step that receives it, whatever
   handler invocations are suspended at the endpoint, and these stay as they
   are; the completion of a suspended invocation sends one Response with the
   correlationId of its Request; and in every state each received Request
   has exactly one answer, sent already or due from a suspended invocation. *)
C24_Step ==
  \A e \in Ends :
    /\ (DeliverStep(e) /\ isIpcInput(Head(chan[e]))) =>
         LET r == Len(reqLog'[e])
         IN /\ r = Len(reqLog[e]) + 1
            /\ running[e] \subseteq running'[e]
            /\ \A inv \in running'[e] \ running[e] : inv.req = r
            /\ reqLog'[e][r].registered => reqLog'[e][r].invoked # <<>>
    /\ \A inv \in running[e] \ running'[e] :
         /\ Len(chan'[Peer(e)]) = Len(chan[Peer(e)]) + 1
         /\ LET out == chan'[Peer(e)][Len(chan'[Peer(e)])]
            IN /\ isIpcOutput(out)
               /\ out.correlationId = reqLog[e][inv.req].correlationId

C24_State ==
  \A e \in Ends : \A r \in DOMAIN reqLog[e] :
    reqLog[e][r].sent + Cardinality(Suspended(e, r)) = 1

C24_NotQueued == []C24_State /\ [][C24_Step]_vars

----------------------------------------------------------------------------
(* The add calls of endpoint e under `name' that returned a removal function
   which has not been called. *)
ActiveAdds(e, name) ==
  {l \in DOMAIN addLog[e] :
     addLog[e][l].ok /\ ~addLog[e][l].removed /\ addLog[e][l].name = name}

(* C25: the step that receives a Request named n passes it to the handlers
   of exactly the add calls of n that have returned and whose removal
   function has not been called, and answers it not-found if there is none;
   what was done for a Request is settled in that step: no handler is
   invoked for it later, whatever is registered afterwards. *)
C25_Step ==
  \A e \in Ends :
    /\ (DeliverStep(e) /\ isIpcInput(Head(chan[e]))) =>
         LET r == Len(reqLog'[e])
             m == Head(chan[e])
         IN /\ r = Len(reqLog[e]) + 1
            /\ Range(reqLog'[e][r].invoked) = ActiveAdds(e, m.name)
            /\ ActiveAdds(e, m.name) = {} =>
                 /\ reqLog'[e][r].notFound
                 /\ reqLog'[e][r].sent = 1
    /\ \A r \in DOMAIN reqLog[e] :
         /\ r \in DOMAIN reqLog'[e]
         /\ reqLog'[e][r].invoked = reqLog[e][r].invoked
         /\ reqLog'[e][r].notFound = reqLog[e][r].notFound
    /\ \A inv \in running'[e] \ running[e] : inv.req = Len(reqLog[e]) + 1

C25_State ==
  \A e \in Ends : \A inv \in running[e] :
    inv.lid \in Range(reqLog[e][inv.req].invoked)

C25_NoBuffering == []C25_State /\ [][C25_Step]_vars

(* C25 witness: an endpoint answered a Request not-found, no handler was
   invoked for it, the name was registered afterwards and a later Request of
   that name was passed to the handler; nothing is left to be done. *)
C25_Witness ==
  \E e \in Ends : \E r, q \in DOMAIN reqLog[e] :
    /\ r < q
    /\ reqLog[e][r].name = reqLog[e][q].name
    /\ reqLog[e][r].notFound /\ reqLog[e][r].invoked = <<>>
    /\ ~reqLog[e][q].notFound /\ reqLog[e][q].invoked # <<>>
    /\ ActiveAdds(e, reqLog[e][r].name) # {}
    /\ chan[e] = <<>> /\ running[e] = {}

----------------------------------------------------------------------------
(* C26: over the synchronous channel an act call whose Request the peer
   answered not-found is, as soon as act has returned, rejected with the
   RemoteError of that answer, by one invocation of reject, with its timer
   cleared and no reply listener left. *)
C26_ReentrantReply ==
  \A e \in Ends : \A k \in DOMAIN calls[e] : \A r \in RequestsOf(e, k) :
    reqLog[Peer(e)][r].notFound =>
      LET c == calls[e][k]
          message == NotFoundMessage(variant, c.name)
      IN /\ c.promise = [state |-> "rejected",
                         reason |-> RemoteError(message, [message |-> message])]
         /\ c.settles = 1
         /\ ~c.timer
         /\ ~HasReply(e, k)

(* C26 witness: an act call was answered not-found within its own send. *)
C26_Witness ==
  \E e \in Ends : \E k \in DOMAIN calls[e] : \E r \in RequestsOf(e, k) :
    /\ reqLog[Peer(e)][r].notFound
    /\ Settled(calls[e][k])
    /\ reqLog[Peer(e)][r].invoked = <<>>

----------------------------------------------------------------------------
(* The messages endpoint e puts on the channel in the step. *)
SentNow(e) ==
  LET old == chan[Peer(e)]
      new == chan'[Peer(e)]
  IN IF Len(new) > Len(old) THEN SubSeq(new, Len(old) + 1, Len(new)) ELSE <<>>

(* C27: every Response that an endpoint sends carries the correlationId and
   the name of a Request it has received; it carries an error exactly if it
   is the not-found answer to that Request or the answer of a handler that
   threw or rejected, and no error if it is the answer of a handler that
   returned; and an endpoint never sends more Responses to a Request than
   the not-found answer and one per handler invoked for it. *)
C27_Step ==
  \A e \in Ends : \A i \in DOMAIN SentNow(e) :
    LET m == SentNow(e)[i]
    IN isIpcOutput(m) =>
         \E r \in DOMAIN reqLog'[e] :
           LET q == reqLog'[e][r]
               Failing == {l \in Range(q.invoked) : HandlerFails(HandlerOf(e, l))}
               Returning == {l \in Range(q.invoked) : ~HandlerFails(HandlerOf(e, l))}
           IN /\ q.correlationId = m.correlationId
              /\ q.name = m.name
              /\ "error" \in DOMAIN m => (q.notFound \/ Failing # {})
              /\ "error" \notin DOMAIN m => Returning # {}

C27_State ==
  \A e \in Ends : \A r \in DOMAIN reqLog[e] :
    reqLog[e][r].sent <= Len(reqLog[e][r].invoked)
                           + (IF reqLog[e][r].notFound THEN 1 ELSE 0)

C27_ResponsesAnswerRequests == []C27_State /\ [][C27_Step]_vars

(* C27 witness: an endpoint has answered one Request with the error of a
   handler that failed and another with the result of a handler that
   returned. *)
C27_Witness ==
  \E e \in Ends : \E r, q \in DOMAIN reqLog[e] :
    /\ r # q
    /\ reqLog[e][r].sent = 1 /\ reqLog[e][q].sent = 1
    /\ ~reqLog[e][r].notFound /\ ~reqLog[e][q].notFound
    /\ \E l \in Range(reqLog[e][r].invoked) : HandlerFails(HandlerOf(e, l))
    /\ \E l \in Range(reqLog[e][q].invoked) : ~HandlerFails(HandlerOf(e, l))

----------------------------------------------------------------------------
(* How many times messageHandler is attached to the channel of endpoint e. *)
Attached(e) == Cardinality({i \in DOMAIN procListeners[e] : procListeners[e][i] = 0})

(* C28: in the variant with startService/stopService, messageHandler is
   attached to the channel at most once, and it is attached exactly if
   serviceStarted is true; so a Request is answered not-found at most once. *)
C28_AttachedOnce ==
  variant = "service" =>
    \A e \in Ends :
      /\ Attached(e) <= 1
      /\ Attached(e) = 1 <=> serviceStarted[e]
      /\ \A r \in DOMAIN reqLog[e] :
           reqLog[e][r].notFound => reqLog[e][r].sent <= 1 + Len(reqLog[e][r].invoked)

(* C28 witness: the service of an endpoint is started, its messageHandler
   was attached after a messageListener of add (by a startService that
   followed the add), and the endpoint has answered a Request not-found. *)
C28_Witness ==
  \E e \in Ends :
    /\ variant = "service"
    /\ serviceStarted[e]
    /\ Len(procListeners[e]) >= 2
    /\ procListeners[e][Len(procListeners[e])] = 0
    /\ \E r \in DOMAIN reqLog[e] : reqLog[e][r].notFound

----------------------------------------------------------------------------
(* C29: in the variant with startService/stopService, an endpoint whose
   service was stopped and not started again does nothing with what it
   receives: no handler is invoked, no Response is sent, no subscriber is
   invoked and no act call is settled; and stopService leaves the channel,
   what is in flight and the listeners of the peer as they are. *)
C29_Step ==
  \A e \in Ends :
    /\ (DeliverStep(e) /\ ~serviceStarted[e]) =>
         /\ calls' = calls
         /\ rpcEm' = rpcEm
         /\ running' = running
         /\ chan'[Peer(e)] = chan[Peer(e)]
         /\ Len(reqLog'[e]) > Len(reqLog[e]) =>
              reqLog'[e][Len(reqLog'[e])].invoked = <<>>
         /\ Len(noteLog'[e]) > Len(noteLog[e]) =>
              noteLog'[e][Len(noteLog'[e])].invoked = <<>>
         /\ eventsEm' = eventsEm
    /\ (serviceStarted[e] /\ ~serviceStarted'[e]) =>
         /\ chan' = chan
         /\ sendDefined' = sendDefined
         /\ procListeners'[Peer(e)] = procListeners[Peer(e)]
    /\ \A inv \in running'[e] : inv \in running[e] \/ serviceStarted[e]

C29_StoppedIsSilent == [][C29_Step]_vars

====
